---- MODULE Spec2Model ----
(***************************************************************************)
(* Model of go-restclient: a REST client bound to one host.  The package   *)
(* exists in two source files, src/restclient.go and src/unnamed/part_000; *)
(* the variable build says which one a client was compiled from.  The      *)
(* definitions prefixed rc_ model src/restclient.go where it differs from  *)
(* src/unnamed/part_000; the unprefixed ones model src/unnamed/part_000    *)
(* (or code that is the same in both files).                               *)
(*                                                                         *)
(* Strings are sequences of one-character strings, so that prefix tests    *)
(* and concatenation are computed as the code computes them.               *)
(***************************************************************************)
EXTENDS Integers, Sequences, FiniteSets, TLC

\* ------------------------------------------------------------------ bounds
MaxPathLen == 2
MaxSetCalls == 2

\* --------------------------------------------------------------- constants
http_port_default == 80
https_port_default == 443

\* --------------------------------------------------------- string helpers
Digits == <<"0", "1", "2", "3", "4", "5", "6", "7", "8", "9">>

RECURSIVE ItoaNat(_)
ItoaNat(n) ==
  IF n < 10 THEN <<Digits[n + 1]>>
  ELSE ItoaNat(n \div 10) \o <<Digits[(n % 10) + 1]>>

\* strconv.Itoa
Itoa(n) == IF n < 0 THEN <<"-">> \o ItoaNat(0 - n) ELSE ItoaNat(n)

\* strings.HasPrefix
HasPrefix(s, prefix) ==
  /\ Len(s) >= Len(prefix)
  /\ SubSeq(s, 1, Len(prefix)) = prefix

SeqsUpTo(S, n) == UNION {[1..k -> S] : k \in 0..n}

StrHttp == <<"h", "t", "t", "p">>
StrHttps == <<"h", "t", "t", "p", "s">>
StrSep == <<":", "/", "/">>
GET == <<"G", "E", "T">>
PUT == <<"P", "U", "T">>

\* ------------------------------------------------------------ input sets
Hosts == {<<"h">>}
Ports == {80, 443}
PathChars == {"/", "x"}
Paths == SeqsUpTo(PathChars, MaxPathLen)
Methods == {GET, PUT}
StatusCodes == {200, 400, 500}
\* The []int slices passed to SetErrorConstructor
CodeSlices == {<<>>, <<400>>, <<500, 400>>, <<200>>}
Builds == {"restclient.go", "part_000"}

\* Payload kinds: an io.Reader, a value json.Marshal accepts (nil included),
\* a value json.Marshal rejects (a channel, a func).
Payloads == {"reader", "value", "unmarshalable"}
\* The decode target of Do: nil or a pointer.
Intos == {"nil", "ptr"}
\* What the server's response body holds.
Contents == {"json", "malformed"}

\* Error constructors func(*http.Request, *http.Response) error, by what
\* they do: whether they read resp.Body and which error they return.
NilFn == [id |-> "nil", reads |-> FALSE, ret |-> "nil"]
Constructors ==
  { [id |-> "f1", reads |-> TRUE, ret |-> "E1"],
    [id |-> "f2", reads |-> FALSE, ret |-> "nil"] }

\* The network's answer to one send: a transport failure, or a response.
Envs ==
  {[ok |-> FALSE, status |-> 0, content |-> "json"]}
  \cup [ok : {TRUE}, status : StatusCodes, content : Contents]

\* ------------------------------------------------------------------ state
VARIABLES
  build,        \* which source file the client is built from
  client,       \* the httpClient struct
  call,         \* the arguments of the last Do / DoStream call
  ret,          \* what that call returned (or that it panicked)
  obs,          \* what that call did: requests sent, body, constructor, decode
  lastSet,      \* arguments of the latest SetErrorConstructor call
  earlier,      \* arguments of the SetErrorConstructor call before that one
  setter,       \* a goroutine inside SetErrorConstructor, and who wrote what
  doer          \* a goroutine inside Do / DoStream, and what it has read

vars == <<build, client, call, ret, obs, lastSet, earlier, setter, doer>>

\* New(host, port, use_https)
New(host, port, use_https) ==
  [host |-> host, port |-> port, use_https |-> use_https,
   customErrorStatusCodes |-> <<>>, customErrorConstructor |-> NilFn]

\* fullPath with 80 taken as the default port of both schemes
fullPath_oneDefault(c, path) ==
  LET proto == IF c.use_https THEN StrHttps ELSE StrHttp
      port == IF c.port # http_port_default THEN <<":">> \o Itoa(c.port)
              ELSE <<>>
      path1 == IF ~HasPrefix(path, <<"/">>) THEN <<"/">> \o path ELSE path
  IN proto \o StrSep \o c.host \o port \o path1

\* fullPath that puts a slash in front of every path
fullPath_alwaysSlash(c, path) ==
  LET proto == IF c.use_https THEN StrHttps ELSE StrHttp
      default_port == IF c.use_https THEN https_port_default
                      ELSE http_port_default
      port == IF c.port # default_port THEN <<":">> \o Itoa(c.port)
              ELSE <<>>
  IN proto \o StrSep \o c.host \o port \o <<"/">> \o path

\* httpClient.fullPath
fullPath(c, path) ==
  LET proto == IF c.use_https THEN StrHttps ELSE StrHttp
      default_port == IF c.use_https THEN https_port_default
                      ELSE http_port_default
      port == IF c.port # default_port THEN <<":">> \o Itoa(c.port)
              ELSE <<>>
      path1 == IF ~HasPrefix(path, <<"/">>) THEN <<"/">> \o path ELSE path
  IN proto \o StrSep \o c.host \o port \o path1

\* Outcome of a call before anything happened: nothing returned, no request
\* sent, no response, no constructor invoked.
NoOutcome ==
  [status |-> -1, stream |-> "nil", err |-> "nil", panic |-> FALSE,
   wire |-> <<>>, got |-> FALSE, respStatus |-> 0, content |-> "json",
   closes |-> 0, bodyRead |-> FALSE, invoked |-> <<>>, decodes |-> 0]

\* http.NewRequest as requestRaw uses it: an empty method means GET, a
\* method that is not an HTTP token is rejected.
NewRequest(method, url) ==
  LET m == IF method = <<>> THEN GET ELSE method
      valid == \A i \in DOMAIN m : m[i] \notin {"/", ":"}
  IN [err |-> IF valid THEN "nil" ELSE "invalid method",
      method |-> m, url |-> url]

\* json.Marshal(payload) in request
jsonMarshal(payload) ==
  IF payload = "unmarshalable" THEN "json.Marshal" ELSE "nil"

\* json.NewDecoder(body).Decode(into): the value is read first, then stored
jsonDecode(content, into) ==
  IF content = "malformed" THEN "json.SyntaxError"
  ELSE IF into = "nil" THEN "json.InvalidUnmarshalError"
  ELSE "nil"

\* SetErrorConstructor that appends to the status codes already set
SetErrorConstructor_merge(c, statusCodes, fn) ==
  [c EXCEPT !.customErrorStatusCodes = @ \o statusCodes,
            !.customErrorConstructor = fn]

\* httpClient.SetErrorConstructor
SetErrorConstructor(c, statusCodes, fn) ==
  [c EXCEPT !.customErrorStatusCodes = statusCodes,
            !.customErrorConstructor = fn]

\* hasCustomError that also takes every 4xx and 5xx status for an error
hasCustomError_any4xx(c, statusCode) ==
  \/ statusCode >= 400
  \/ \E i \in DOMAIN c.customErrorStatusCodes :
        c.customErrorStatusCodes[i] = statusCode

\* httpClient.hasCustomError
hasCustomError(c, statusCode) ==
  \E i \in DOMAIN c.customErrorStatusCodes :
     c.customErrorStatusCodes[i] = statusCode

\* The constructor call inside customErrorResponse: calling a nil func
\* panics, otherwise the constructor runs once on (req, resp).
callConstructor(c, req, resp) ==
  LET fn == c.customErrorConstructor
  IN IF fn = NilFn
     THEN [err |-> "nil", panic |-> TRUE, bodyRead |-> FALSE,
           invoked |-> <<>>]
     ELSE [err |-> fn.ret, panic |-> FALSE, bodyRead |-> fn.reads,
           invoked |-> <<[fn |-> fn.id, req |-> req,
                          status |-> resp.status]>>]

\* ---------------------------------------------- src/unnamed/part_000

\* httpClient.customErrorResponse: defer resp.Body.Close() runs on return
\* and while a panic unwinds.
customErrorResponse(c, req, resp) ==
  LET r == callConstructor(c, req, resp)
  IN [err |-> r.err, panic |-> r.panic, bodyRead |-> r.bodyRead,
      invoked |-> r.invoked, closes |-> 1]

\* requestRaw that sends the request a second time after a transport failure
requestRaw_retry(c, method, path, payload, env) ==
  LET url == fullPath(c, path)
      req == NewRequest(method, url)
      sent == [method |-> req.method, url |-> req.url]
  IN IF req.err # "nil"
     THEN [NoOutcome EXCEPT !.status = -1, !.err = req.err]
     ELSE IF ~env.ok
     THEN [NoOutcome EXCEPT !.status = -1, !.err = "transport",
                            !.wire = <<sent, sent>>]
     ELSE IF hasCustomError(c, env.status)
     THEN LET e == customErrorResponse(c, sent, env)
          IN [NoOutcome EXCEPT !.status = env.status, !.err = e.err,
                               !.panic = e.panic, !.wire = <<sent>>,
                               !.got = TRUE, !.respStatus = env.status,
                               !.content = env.content,
                               !.closes = e.closes,
                               !.bodyRead = e.bodyRead,
                               !.invoked = e.invoked]
     ELSE [NoOutcome EXCEPT !.status = env.status, !.stream = "body",
                            !.wire = <<sent>>, !.got = TRUE,
                            !.respStatus = env.status,
                            !.content = env.content]

\* httpClient.requestRaw(method, path, payload)
requestRaw(c, method, path, payload, env) ==
  LET url == fullPath(c, path)
      req == NewRequest(method, url)
      sent == [method |-> req.method, url |-> req.url]
  IN IF req.err # "nil"
     THEN [NoOutcome EXCEPT !.status = -1, !.err = req.err]
     ELSE IF ~env.ok
     THEN [NoOutcome EXCEPT !.status = -1, !.err = "transport",
                            !.wire = <<sent>>]
     ELSE IF hasCustomError(c, env.status)
     THEN LET e == customErrorResponse(c, sent, env)
          IN [NoOutcome EXCEPT !.status = env.status, !.err = e.err,
                               !.panic = e.panic, !.wire = <<sent>>,
                               !.got = TRUE, !.respStatus = env.status,
                               !.content = env.content,
                               !.closes = e.closes,
                               !.bodyRead = e.bodyRead,
                               !.invoked = e.invoked]
     ELSE [NoOutcome EXCEPT !.status = env.status, !.stream = "body",
                            !.wire = <<sent>>, !.got = TRUE,
                            !.respStatus = env.status,
                            !.content = env.content]

\* request that sends the request although json.Marshal failed
request_ignoreMarshalError(c, method, path, payload, env) ==
  requestRaw(c, method, path, payload, env)

\* httpClient.request(method, path, payload)
request(c, method, path, payload, env) ==
  IF payload # "reader" /\ jsonMarshal(payload) # "nil"
  THEN [NoOutcome EXCEPT !.status = -1, !.err = jsonMarshal(payload)]
  ELSE requestRaw(c, method, path, payload, env)

\* handleJSONResponse(body, into)
handleJSONResponse(content, into) ==
  IF into = "nil" THEN [err |-> "nil", decodes |-> 0]
  ELSE [err |-> jsonDecode(content, into), decodes |-> 1]

\* httpClient.requestJSON(method, path, payload, into).  body.Close() on a
\* nil body (a constructor that returned a nil error) panics at the defer.
requestJSON(c, method, path, payload, into, env) ==
  LET r == request(c, method, path, payload, env)
  IN IF r.panic THEN r
     ELSE IF r.err # "nil" THEN [r EXCEPT !.stream = "nil"]
     ELSE IF r.stream = "nil" THEN [r EXCEPT !.panic = TRUE]
     ELSE LET d == handleJSONResponse(r.content, into)
          IN [r EXCEPT !.stream = "nil", !.err = d.err,
                       !.decodes = d.decodes, !.closes = @ + 1]

\* httpClient.Do(method, path, payload, into)
Do(c, method, path, payload, into, env) ==
  requestJSON(c, method, path, payload, into, env)

\* httpClient.DoStream(method, path, payload)
DoStream(c, method, path, payload, env) ==
  request(c, method, path, payload, env)

\* ------------------------------------------------- src/restclient.go

\* httpClient.customErrorResponse: calls the constructor, closes nothing
rc_customErrorResponse(c, req, resp) ==
  LET r == callConstructor(c, req, resp)
  IN [err |-> r.err, panic |-> r.panic, bodyRead |-> r.bodyRead,
      invoked |-> r.invoked, closes |-> 0]

\* httpClient.requestRaw(path, method, payload)
rc_requestRaw(c, path, method, payload, env) ==
  LET full_path == fullPath(c, path)
      req == NewRequest(method, full_path)
      sent == [method |-> req.method, url |-> req.url]
  IN IF req.err # "nil"
     THEN [NoOutcome EXCEPT !.status = -1, !.err = req.err]
     ELSE IF ~env.ok
     THEN [NoOutcome EXCEPT !.status = -1, !.err = "transport",
                            !.wire = <<sent>>]
     ELSE IF hasCustomError(c, env.status)
     THEN LET e == rc_customErrorResponse(c, sent, env)
          IN [NoOutcome EXCEPT !.status = env.status, !.err = e.err,
                               !.panic = e.panic, !.wire = <<sent>>,
                               !.got = TRUE, !.respStatus = env.status,
                               !.content = env.content,
                               !.closes = e.closes,
                               !.bodyRead = e.bodyRead,
                               !.invoked = e.invoked]
     ELSE [NoOutcome EXCEPT !.status = env.status, !.stream = "body",
                            !.wire = <<sent>>, !.got = TRUE,
                            !.respStatus = env.status,
                            !.content = env.content]

\* httpClient.request(path, method, payload)
rc_request(c, path, method, payload, env) ==
  IF payload # "reader" /\ jsonMarshal(payload) # "nil"
  THEN [NoOutcome EXCEPT !.status = -1, !.err = jsonMarshal(payload)]
  ELSE rc_requestRaw(c, path, method, payload, env)

\* httpClient.requestJSON(path, method, payload, into): always decodes.
rc_requestJSON(c, path, method, payload, into, env) ==
  LET r == rc_request(c, path, method, payload, env)
  IN IF r.panic THEN r
     ELSE IF r.err # "nil" THEN [r EXCEPT !.stream = "nil"]
     ELSE IF r.stream = "nil" THEN [r EXCEPT !.panic = TRUE]
     ELSE [r EXCEPT !.stream = "nil", !.err = jsonDecode(r.content, into),
                    !.decodes = 1, !.closes = @ + 1]

\* httpClient.Do(path, method string, payload, into): the interface's
\* first argument lands in the parameter named path.
rc_Do(c, path, method, payload, into, env) ==
  rc_requestJSON(c, path, method, payload, into, env)

\* httpClient.DoStream(path, method string, payload)
rc_DoStream(c, path, method, payload, env) ==
  rc_request(c, path, method, payload, env)

\* ------------------------------------------------------- state machine

NoCall == [op |-> "none", method |-> <<>>, path |-> <<>>,
           payload |-> "value", into |-> "nil"]

RetOf(r) == [status |-> r.status, stream |-> r.stream, err |-> r.err,
             panic |-> r.panic]

ObsOf(r) == [wire |-> r.wire, got |-> r.got, respStatus |-> r.respStatus,
             content |-> r.content, closes |-> r.closes,
             bodyRead |-> r.bodyRead, invoked |-> r.invoked,
             decodes |-> r.decodes]

\* No goroutine is inside SetErrorConstructor.  calls counts the calls begun;
\* codesBy and fnBy say which call wrote the field the client holds now
\* (0: New).
IdleSetter ==
  [pc |-> "idle", statusCodes |-> <<>>, fn |-> NilFn, calls |-> 0,
   codesBy |-> 0, fnBy |-> 0]

\* No goroutine is inside Do or DoStream.
IdleDoer ==
  [pc |-> "idle", op |-> "none", status |-> 0, overlap |-> FALSE,
   setAt |-> 0, codes |-> <<>>, codesBy |-> 0, fnBy |-> 0, fault |-> FALSE]

Init ==
  /\ build \in Builds
  /\ client \in {New(h, p, t) : h \in Hosts, p \in Ports, t \in BOOLEAN}
  /\ call = NoCall
  /\ ret = RetOf(NoOutcome)
  /\ obs = ObsOf(NoOutcome)
  /\ lastSet = [called |-> FALSE, codes |-> <<>>, fn |-> NilFn]
  /\ earlier = [called |-> FALSE, codes |-> <<>>, fn |-> NilFn]
  /\ setter = IdleSetter
  /\ doer = IdleDoer

\* client.SetErrorConstructor(statusCodes, fn) through the Client interface,
\* between two requests of a sequential caller.
CallSetErrorConstructor ==
  /\ call.op = "none"
  /\ \E statusCodes \in CodeSlices, fn \in Constructors :
       /\ client' = SetErrorConstructor(client, statusCodes, fn)
       /\ lastSet' = [called |-> TRUE, codes |-> statusCodes, fn |-> fn]
       /\ earlier' = lastSet
  /\ UNCHANGED <<build, call, ret, obs, setter, doer>>

\* client.Do(method, path, payload, into) through the Client interface
CallDo ==
  /\ call.op = "none"
  /\ \E method \in Methods, path \in Paths, payload \in Payloads,
        into \in Intos, env \in Envs :
       LET r == IF build = "restclient.go"
                THEN rc_Do(client, method, path, payload, into, env)
                ELSE Do(client, method, path, payload, into, env)
       IN /\ call' = [op |-> "Do", method |-> method, path |-> path,
                      payload |-> payload, into |-> into]
          /\ ret' = RetOf(r)
          /\ obs' = ObsOf(r)
  /\ UNCHANGED <<build, client, lastSet, earlier, setter, doer>>

\* client.DoStream(method, path, payload) through the Client interface
CallDoStream ==
  /\ call.op = "none"
  /\ \E method \in Methods, path \in Paths, payload \in Payloads,
        env \in Envs :
       LET r == IF build = "restclient.go"
                THEN rc_DoStream(client, method, path, payload, env)
                ELSE DoStream(client, method, path, payload, env)
       IN /\ call' = [op |-> "DoStream", method |-> method, path |-> path,
                      payload |-> payload, into |-> "nil"]
          /\ ret' = RetOf(r)
          /\ obs' = ObsOf(r)
  /\ UNCHANGED <<build, client, lastSet, earlier, setter, doer>>

\* The caller is done with the result of one request and moves on to the
\* next one with fresh result variables, as the loops of the tests do.
NextCase ==
  /\ call.op # "none"
  /\ call' = NoCall
  /\ ret' = RetOf(NoOutcome)
  /\ obs' = ObsOf(NoOutcome)
  /\ UNCHANGED <<build, client, lastSet, earlier, setter, doer>>

Next == CallSetErrorConstructor \/ CallDo \/ CallDoStream \/ NextCase

Spec == Init /\ [][Next]_vars

\* --------------------------------- concurrent use of one client

\* SetErrorConstructor, first statement: store the slice
writeStatusCodes(c, statusCodes) ==
  [c EXCEPT !.customErrorStatusCodes = statusCodes]

\* second statement that stores the constructor only while none is set
writeConstructor_onlyFirst(c, fn) ==
  IF c.customErrorConstructor = NilFn
  THEN [c EXCEPT !.customErrorConstructor = fn]
  ELSE c

\* SetErrorConstructor, second statement: store the constructor
writeConstructor(c, fn) ==
  [c EXCEPT !.customErrorConstructor = fn]

\* What a range over the slice can see while another goroutine stores a new
\* slice header without synchronization: the data pointer of one slice with
\* the length of the other.  Elements past the end of the data are whatever
\* lies in memory.
Garbage == StatusCodes \cup {0}
Take(s, n) ==
  {t \in [1..n -> StatusCodes \cup Garbage] :
      \A i \in 1..n : i <= Len(s) => t[i] = s[i]}
TornReads(old, new) ==
  {[codes |-> t, past |-> Len(old) > Len(new)] : t \in Take(new, Len(old))}
  \cup
  {[codes |-> t, past |-> Len(new) > Len(old)] : t \in Take(old, Len(new))}

\* The values hasCustomError can read from client.customErrorStatusCodes.
ReadCodes ==
  LET torn == IF setter.pc = "codes"
              THEN TornReads(client.customErrorStatusCodes,
                             setter.statusCodes)
              ELSE {}
  IN {[codes |-> client.customErrorStatusCodes, by |-> setter.codesBy,
       fault |-> FALSE]}
     \cup {[codes |-> x.codes, by |-> -1, fault |-> FALSE] : x \in torn}
     \cup {[codes |-> x.codes, by |-> -1, fault |-> TRUE] :
             x \in {y \in torn : y.past}}

\* The arguments of the requests of the concurrent caller
RaceCall(op) ==
  [op |-> op, method |-> GET, path |-> <<"x">>, payload |-> "value",
   into |-> IF op = "Do" THEN "ptr" ELSE "nil"]

\* The call as it runs on the fields the goroutine has read.
RunOn(view, op, env) ==
  LET a == RaceCall(op)
  IN IF build = "restclient.go"
     THEN IF op = "Do"
          THEN rc_Do(view, a.method, a.path, a.payload, a.into, env)
          ELSE rc_DoStream(view, a.method, a.path, a.payload, env)
     ELSE IF op = "Do"
          THEN Do(view, a.method, a.path, a.payload, a.into, env)
          ELSE DoStream(view, a.method, a.path, a.payload, env)

\* A goroutine enters SetErrorConstructor(statusCodes, fn).
SetBegin ==
  /\ setter.pc = "idle"
  /\ setter.calls < MaxSetCalls
  /\ \E statusCodes \in CodeSlices, fn \in Constructors :
       setter' = [setter EXCEPT !.pc = "codes", !.statusCodes = statusCodes,
                                !.fn = fn, !.calls = @ + 1]
  /\ doer' = IF doer.pc # "idle" THEN [doer EXCEPT !.overlap = TRUE]
             ELSE doer
  /\ UNCHANGED <<build, client, call, ret, obs, lastSet, earlier>>

\* client.customErrorStatusCodes = statusCodes
SetWriteCodes ==
  /\ setter.pc = "codes"
  /\ client' = writeStatusCodes(client, setter.statusCodes)
  /\ setter' = [setter EXCEPT !.pc = "fn", !.codesBy = setter.calls]
  /\ UNCHANGED <<build, call, ret, obs, lastSet, earlier, doer>>

\* client.customErrorConstructor = fn
SetWriteConstructor ==
  /\ setter.pc = "fn"
  /\ client' = writeConstructor(client, setter.fn)
  /\ setter' = [setter EXCEPT !.pc = "idle", !.fnBy = setter.calls]
  /\ UNCHANGED <<build, call, ret, obs, lastSet, earlier, doer>>

\* Another goroutine calls Do or DoStream; requestRaw has sent the request
\* and holds a response.
ReqResponse ==
  /\ call.op = "none"
  /\ doer.pc = "idle"
  /\ \E op \in {"Do", "DoStream"}, status \in StatusCodes :
       doer' = [IdleDoer EXCEPT !.pc = "hasCustomError", !.op = op,
                                !.status = status,
                                !.overlap = (setter.pc # "idle"),
                                !.setAt = setter.calls]
  /\ UNCHANGED <<build, client, call, ret, obs, lastSet, earlier, setter>>

\* The goroutine is done: the call returns (or panics).
Finish(d, r) ==
  /\ call' = RaceCall(d.op)
  /\ ret' = RetOf(r)
  /\ obs' = ObsOf(r)
  /\ doer' = [d EXCEPT !.pc = "idle"]

\* client.hasCustomError(resp.StatusCode): the slice is read.  Without a
\* match the call goes on to its end; reading past the data can fault.
ReqHasCustomError ==
  /\ doer.pc = "hasCustomError"
  /\ \E v \in ReadCodes :
       LET d == [doer EXCEPT !.codes = v.codes, !.codesBy = v.by,
                             !.fault = v.fault]
           view == [client EXCEPT !.customErrorStatusCodes = v.codes]
           env == [ok |-> TRUE, status |-> doer.status, content |-> "json"]
       IN IF v.fault
          THEN Finish(d, [NoOutcome EXCEPT !.panic = TRUE])
          ELSE IF hasCustomError(view, doer.status)
          THEN /\ doer' = [d EXCEPT !.pc = "customErrorResponse"]
               /\ UNCHANGED <<call, ret, obs>>
          ELSE Finish(d, RunOn(view, doer.op, env))
  /\ UNCHANGED <<build, client, lastSet, earlier, setter>>

\* client.customErrorResponse(req, resp): the constructor is read and called
ReqCustomErrorResponse ==
  /\ doer.pc = "customErrorResponse"
  /\ LET d == [doer EXCEPT !.fnBy = setter.fnBy]
         view == [client EXCEPT !.customErrorStatusCodes = doer.codes]
         env == [ok |-> TRUE, status |-> doer.status, content |-> "json"]
     IN Finish(d, RunOn(view, doer.op, env))
  /\ UNCHANGED <<build, client, lastSet, earlier, setter>>

NextRace ==
  \/ SetBegin \/ SetWriteCodes \/ SetWriteConstructor
  \/ ReqResponse \/ ReqHasCustomError \/ ReqCustomErrorResponse
  \/ NextCase

SpecRace == Init /\ [][NextRace]_vars

TypeOK ==
  /\ build \in Builds
  /\ call.op \in {"none", "Do", "DoStream"}
  /\ ret.status \in {-1} \cup StatusCodes
  /\ Len(obs.wire) <= 1

\* ------------------------------------------------------------ properties

\* A call was made and its outcome is there to look at.
Called == call.op # "none"
\* The status codes of a slice, as a set.
CodeSet(codes) == {codes[i] : i \in DOMAIN codes}
\* The call obtained an HTTP response.
GotResponse == Called /\ obs.got
\* Does the string s start with a slash?
Slashed(s) == s # <<>> /\ s[1] = "/"

\* C1: a Do or DoStream call whose payload is not a reader and cannot be
\* serialized to JSON returns status -1, a non-nil error and no stream, and
\* sends no HTTP request.
C1_MarshalFailureSendsNothing ==
  (Called /\ call.payload = "unmarshalable") =>
     /\ ~ret.panic
     /\ ret.status = -1
     /\ ret.err # "nil"
     /\ ret.stream = "nil"
     /\ obs.wire = <<>>
     /\ ~obs.got

C1_Witness ==
  /\ call.op = "DoStream"
  /\ call.payload = "unmarshalable"
  /\ ret.err = "json.Marshal"
  /\ build = "part_000"

\* C2 (as claimed): when the response status is in the configured status
\* set, the configured constructor is invoked exactly once with the request
\* and the response, and the call returns the real status with exactly the
\* constructor's error; Do runs no decode and DoStream returns a nil stream.
C2_CustomErrorReturned ==
  (GotResponse /\ obs.respStatus \in CodeSet(client.customErrorStatusCodes)) =>
     /\ Len(obs.invoked) = 1
     /\ obs.invoked[1].fn = client.customErrorConstructor.id
     /\ obs.invoked[1].req = obs.wire[1]
     /\ obs.invoked[1].status = obs.respStatus
     /\ ~ret.panic
     /\ ret.status = obs.respStatus
     /\ ret.err = client.customErrorConstructor.ret
     /\ obs.decodes = 0
     /\ ret.stream = "nil"

\* C3: while SetErrorConstructor was never called or was last called with
\* an empty status set, no response status produces a custom error: no
\* constructor is invoked, the real status is returned, DoStream returns the
\* open body with a nil error and Do returns what the decode step yields.
C3_NoCustomErrorWithoutStatusSet ==
  (GotResponse /\ lastSet.codes = <<>>) =>
     /\ obs.invoked = <<>>
     /\ ~ret.panic
     /\ ret.status = obs.respStatus
     /\ ret.err \notin {"E1", "transport", "json.Marshal"}
     /\ call.op = "DoStream" =>
          (ret.stream = "body" /\ ret.err = "nil" /\ obs.closes = 0)
     /\ (call.op = "Do" /\ call.into = "ptr") =>
          /\ obs.decodes = 1
          /\ ret.err = IF obs.content = "json" THEN "nil"
                       ELSE "json.SyntaxError"

C3_Witness ==
  /\ lastSet.called /\ lastSet.codes = <<>>
  /\ call.op = "DoStream"
  /\ obs.got /\ obs.respStatus = 500
  /\ ret.status = 500 /\ ret.stream = "body"

\* C4: every Do or DoStream consults only the status set and the
\* constructor of the latest SetErrorConstructor call: a constructor is
\* invoked exactly when the response status is in the latest set, and the
\* one invoked is the latest constructor, never an earlier one.
C4_OnlyLatestPairConsulted ==
  GotResponse =>
     /\ (obs.invoked # <<>>) <=> (obs.respStatus \in CodeSet(lastSet.codes))
     /\ \A i \in DOMAIN obs.invoked : obs.invoked[i].fn = lastSet.fn.id
     /\ Len(obs.invoked) <= 1

C4_Witness ==
  /\ GotResponse
  /\ earlier.called
  /\ obs.respStatus \in CodeSet(earlier.codes) \ CodeSet(lastSet.codes)
  /\ lastSet.codes # <<>>
  /\ earlier.fn # lastSet.fn
  /\ obs.invoked = <<>>
  /\ ret.status = obs.respStatus

\* C5 (as claimed): every request that Do(method, path, ...) or
\* DoStream(method, path, ...) sends carries method as its HTTP method and
\* goes to the URL fullPath(path).
C5_MethodAndPathNotExchanged ==
  Called =>
     \A i \in DOMAIN obs.wire :
        /\ obs.wire[i].method = call.method
        /\ obs.wire[i].url = fullPath(client, call.path)

\* C6: fullPath returns scheme://host[:port]path (the path with its leading
\* slash), scheme being https iff use_https; the :port segment is absent
\* exactly when the port is the default of the scheme (80 for http, 443 for
\* https) and is :<decimal port> otherwise.
C6_SchemeAndPortSegment ==
  \A p \in Paths :
     LET u == fullPath(client, p)
         scheme == IF client.use_https THEN StrHttps ELSE StrHttp
         head == scheme \o <<":", "/", "/">> \o client.host
         rest == SubSeq(u, Len(head) + 1, Len(u))
         np == IF Slashed(p) THEN p ELSE <<"/">> \o p
         dflt == IF client.use_https THEN 443 ELSE 80
     IN /\ HasPrefix(u, head)
        /\ (rest = np) <=> (client.port = dflt)
        /\ (client.port # dflt) => rest = <<":">> \o Itoa(client.port) \o np

C6_Witness ==
  /\ client.port = 443 /\ ~client.use_https
  /\ Called /\ obs.wire # <<>>
  /\ obs.wire[1].url = <<"h", "t", "t", "p", ":", "/", "/", "h",
                         ":", "4", "4", "3", "/", "x">>

\* C7: for a path p without a leading slash fullPath(p) = fullPath("/" + p);
\* a path with a leading slash is appended unchanged, no slash is added.
C7_LeadingSlashNormalized ==
  \A p \in Paths :
     LET base == fullPath(client, <<"/">>)
         stem == SubSeq(base, 1, Len(base) - 1)
     IN IF Slashed(p)
        THEN fullPath(client, p) = stem \o p
        ELSE fullPath(client, p) = fullPath(client, <<"/">> \o p)

C7_Witness ==
  /\ build = "part_000"
  /\ client.port = 80 /\ ~client.use_https
  /\ Called /\ call.path = <<"x">> /\ obs.wire # <<>>
  /\ obs.wire[1].url = <<"h", "t", "t", "p", ":", "/", "/", "h", "/", "x">>

\* C8 (as claimed): a DoStream call that returns a nil error returns the
\* real status and a non-nil body stream the client has not closed; one that
\* returns a non-nil error returns a nil stream.
C8_StreamIffNoError ==
  (call.op = "DoStream" /\ ~ret.panic) =>
     /\ ret.err = "nil" =>
          /\ obs.got /\ ret.status = obs.respStatus
          /\ ret.stream = "body"
          /\ obs.closes = 0
     /\ ret.err # "nil" => ret.stream = "nil"

\* C9 (as claimed): Do with a nil into, on a response whose status is not in
\* the custom-error set, attempts no decode, closes the body and returns the
\* real status with a nil error, whatever the body holds.
C9_NilIntoSkipsDecode ==
  (/\ call.op = "Do" /\ call.into = "nil" /\ obs.got
   /\ obs.respStatus \notin CodeSet(client.customErrorStatusCodes)) =>
     /\ ~ret.panic
     /\ obs.decodes = 0
     /\ obs.closes = 1
     /\ ret.status = obs.respStatus
     /\ ret.err = "nil"

\* C10 (as claimed): on the custom-error path the client has closed the
\* response body when Do or DoStream is over, whether or not the constructor
\* read it and whatever it returned.
C10_CustomErrorClosesBody ==
  (GotResponse /\ obs.respStatus \in CodeSet(client.customErrorStatusCodes)) =>
     obs.closes >= 1

\* C11 (as claimed): every Do call that obtains an HTTP response has closed
\* the body of that response exactly once when it is over, whether the
\* decode succeeded or failed; a decode failure comes with the real status.
C11_DoClosesBodyOnce ==
  (call.op = "Do" /\ obs.got) =>
     /\ obs.closes = 1
     /\ ret.err \in {"json.SyntaxError", "json.InvalidUnmarshalError"} =>
          ret.status = obs.respStatus

\* C12: a call whose request was sent and got no response (transport
\* failure) returns status -1 and the transport error; no body is read or
\* closed, no constructor is invoked, nothing is decoded, and the request
\* was sent exactly once.
C12_TransportFailure ==
  (Called /\ obs.wire # <<>> /\ ~obs.got) =>
     /\ ~ret.panic
     /\ ret.status = -1
     /\ ret.err = "transport"
     /\ ret.stream = "nil"
     /\ obs.closes = 0
     /\ ~obs.bodyRead
     /\ obs.invoked = <<>>
     /\ obs.decodes = 0
     /\ Len(obs.wire) = 1

C12_Witness ==
  /\ build = "part_000"
  /\ call.op = "Do"
  /\ client.customErrorStatusCodes # <<>>
  /\ obs.wire # <<>> /\ ~obs.got
  /\ ret.status = -1 /\ ret.err = "transport"

\* The request of the concurrent caller is over and took the custom-error
\* branch of requestRaw.
RaceMatched ==
  /\ Called /\ doer.pc = "idle" /\ doer.op # "none" /\ ~doer.fault
  /\ doer.status \in CodeSet(doer.codes)

\* C13: a call that does not overlap any SetErrorConstructor call matches
\* the status against the status set of the latest SetErrorConstructor call
\* and invokes the constructor of that same call; a call that matched one
\* call's set and ran another call's constructor (or none) overlapped a
\* SetErrorConstructor call.
C13_SerializedCallSeesOnePair ==
  /\ (Called /\ doer.pc = "idle" /\ doer.op # "none" /\ ~doer.overlap) =>
        /\ ~doer.fault /\ doer.codesBy # -1
        /\ (setter.pc = "idle" /\ setter.calls = doer.setAt) =>
              /\ doer.codes = setter.statusCodes
              /\ RaceMatched =>
                   /\ Len(obs.invoked) = 1
                   /\ obs.invoked[1].fn = setter.fn.id
  /\ (RaceMatched /\ doer.codesBy # doer.fnBy) => doer.overlap

\* The status matched the set of one call, the constructor of another ran.
C13_Witness ==
  /\ RaceMatched
  /\ doer.overlap
  /\ doer.codesBy >= 1 /\ doer.fnBy >= 1 /\ doer.codesBy # doer.fnBy
  /\ Len(obs.invoked) = 1
  /\ obs.invoked[1].fn = setter.fn.id
  /\ doer.codes # setter.statusCodes

\* The status matched the set of the first call and no constructor was set.
C13_WitnessNilConstructor ==
  /\ RaceMatched
  /\ doer.codesBy = 1 /\ doer.fnBy = 0
  /\ obs.invoked = <<>> /\ ret.panic

====
